---------------------------- MODULE Spec2Model ----------------------------
(***************************************************************************)
(* Mergington High School API (src/src/app.py): the three in-memory        *)
(* stores (users, sessions, activities) and the request handlers over      *)
(* them.  Each handler is one atomic action; the response it sends and     *)
(* the stores as they were before it ran are kept in `last' and `pre'.     *)
(***************************************************************************)
EXTENDS Integers, Sequences, FiniteSets, TLC

VARIABLES users, sessions, activities, issued, loggedOut, last, pre, threads

vars ==
    <<users, sessions, activities, issued, loggedOut, last, pre, threads>>

\* Number of session tokens secrets.token_urlsafe hands out in a run.
MaxTokens == 2

\* A body field that is absent or empty (data.get(...) is None or ""): falsy.
Missing == ""

\* The session_token cookie when the request carries none (Cookie(None)).
NoCookie == 0

ADMIN == "admin@mergington.edu"
TEACHER == "teacher@mergington.edu"
STUDENT == "student@mergington.edu"
NEWUSER == "new@mergington.edu"
GHOST == "ghost@mergington.edu"
MICHAEL == "michael@mergington.edu"

Roles == {"admin", "staff", "student"}

UserRecord(password, role, name) ==
    [password |-> password, role |-> role, name |-> name]

SeedUsers ==
    (ADMIN :> UserRecord("adminpass", "admin", "Admin User")) @@
    (TEACHER :> UserRecord("teachpass", "staff", "Teacher T.")) @@
    (STUDENT :> UserRecord("studpass", "student", "Student S."))

Activity(description, schedule, max_participants, participants) ==
    [description |-> description, schedule |-> schedule,
     max_participants |-> max_participants, participants |-> participants]

SeedActivities ==
    ("Chess Club" :> Activity(
        "Learn strategies and compete in chess tournaments",
        "Fridays, 3:30 PM - 5:00 PM", 12,
        <<"michael@mergington.edu", "daniel@mergington.edu">>)) @@
    ("Programming Class" :> Activity(
        "Learn programming fundamentals and build software projects",
        "Tuesdays and Thursdays, 3:30 PM - 4:30 PM", 20,
        <<"emma@mergington.edu", "sophia@mergington.edu">>)) @@
    ("Gym Class" :> Activity(
        "Physical education and sports activities",
        "Mondays, Wednesdays, Fridays, 2:00 PM - 3:00 PM", 30,
        <<"john@mergington.edu", "olivia@mergington.edu">>)) @@
    ("Soccer Team" :> Activity(
        "Join the school soccer team and compete in matches",
        "Tuesdays and Thursdays, 4:00 PM - 5:30 PM", 22,
        <<"liam@mergington.edu", "noah@mergington.edu">>)) @@
    ("Basketball Team" :> Activity(
        "Practice and play basketball with the school team",
        "Wednesdays and Fridays, 3:30 PM - 5:00 PM", 15,
        <<"ava@mergington.edu", "mia@mergington.edu">>)) @@
    ("Art Club" :> Activity(
        "Explore your creativity through painting and drawing",
        "Thursdays, 3:30 PM - 5:00 PM", 15,
        <<"amelia@mergington.edu", "harper@mergington.edu">>)) @@
    ("Drama Club" :> Activity(
        "Act, direct, and produce plays and performances",
        "Mondays and Wednesdays, 4:00 PM - 5:30 PM", 20,
        <<"ella@mergington.edu", "scarlett@mergington.edu">>)) @@
    ("Math Club" :> Activity(
        "Solve challenging problems and participate in math competitions",
        "Tuesdays, 3:30 PM - 4:30 PM", 10,
        <<"james@mergington.edu", "benjamin@mergington.edu">>)) @@
    ("Debate Team" :> Activity(
        "Develop public speaking and argumentation skills",
        "Fridays, 4:00 PM - 5:30 PM", 12,
        <<"charlotte@mergington.edu", "henry@mergington.edu">>))

-----------------------------------------------------------------------------
(* Python list and dict operations the handlers use. *)

\* x in list
Contains(list, x) == \E i \in DOMAIN list : list[i] = x

\* A wrong list.remove: drops the head of the list, whatever x is.
remove_head(list, x) == Tail(list)

\* list.remove(x): drops the first occurrence of x.
remove(list, x) ==
    LET i == CHOOSE k \in DOMAIN list :
                 list[k] = x /\ \A j \in 1..(k - 1) : list[j] # x
    IN SubSeq(list, 1, i - 1) \o SubSeq(list, i + 1, Len(list))

\* del d[key]
Del(d, key) == [k \in DOMAIN d \ {key} |-> d[k]]

\* d[key] = value
Put(d, key, value) == (key :> value) @@ d

-----------------------------------------------------------------------------
(* What a handler does: the response and the three stores afterwards.      *)

Outcome(status, body, set_cookie, u, s, a) ==
    [status |-> status, body |-> body, set_cookie |-> set_cookie,
     users |-> u, sessions |-> s, activities |-> a]

\* raise HTTPException(status_code, detail): nothing is written.
HTTPException(status_code, detail) ==
    Outcome(status_code, [detail |-> detail], NoCookie,
            users, sessions, activities)

\* secrets.token_urlsafe(16): 128 random bits, taken never to repeat a
\* value already handed out; tokens are numbered in the order generated.
token_urlsafe == issued + 1

\* Dependency get_current_user: the user of the session cookie, or a 401.
get_current_user(session_token) ==
    IF session_token = NoCookie \/ session_token \notin DOMAIN sessions
    THEN [ok |-> FALSE, error |-> HTTPException(401, "Not authenticated")]
    ELSE LET email == sessions[session_token]
         IN IF email \notin DOMAIN users
            THEN [ok |-> FALSE,
                  error |-> HTTPException(401, "Invalid session")]
            ELSE [ok |-> TRUE,
                  user |-> [email |-> email,
                            password |-> users[email].password,
                            role |-> users[email].role,
                            name |-> users[email].name]]

\* A wrong require_roles: any authenticated user passes.
require_roles_unchecked(roles, session_token) ==
    get_current_user(session_token)

\* Dependency require_roles(roles): the current user if its role is allowed.
require_roles(roles, session_token) ==
    LET current == get_current_user(session_token)
    IN IF ~current.ok THEN current
       ELSE IF current.user.role \notin roles
            THEN [ok |-> FALSE,
                  error |-> HTTPException(403, "Insufficient permissions")]
            ELSE current

-----------------------------------------------------------------------------
(* The request handlers. *)

\* GET /
root ==
    Outcome(307, [location |-> "/static/index.html"], NoCookie,
            users, sessions, activities)

\* GET /activities
get_activities == Outcome(200, activities, NoCookie, users, sessions, activities)

\* A wrong login: the password is not compared.
login_no_password_check(data) ==
    LET email == data.email
    IN IF email \notin DOMAIN users
       THEN HTTPException(401, "Invalid credentials")
       ELSE Outcome(200,
                    [message |-> "Login successful",
                     role |-> users[email].role, name |-> users[email].name],
                    token_urlsafe,
                    users, Put(sessions, token_urlsafe, email), activities)

\* A wrong login: a new login ends the user's earlier sessions.
login_single_session(data) ==
    LET email == data.email
        password == data.password
        others == {t \in DOMAIN sessions : sessions[t] # email}
    IN IF email \notin DOMAIN users \/ users[email].password # password
       THEN HTTPException(401, "Invalid credentials")
       ELSE Outcome(200,
                    [message |-> "Login successful",
                     role |-> users[email].role, name |-> users[email].name],
                    token_urlsafe,
                    users,
                    Put([t \in others |-> sessions[t]], token_urlsafe, email),
                    activities)

\* POST /login
login(data) ==
    LET email == data.email
        password == data.password
    IN IF email \notin DOMAIN users \/ users[email].password # password
       THEN HTTPException(401, "Invalid credentials")
       ELSE LET session_token == token_urlsafe
            IN Outcome(200,
                       [message |-> "Login successful",
                        role |-> users[email].role,
                        name |-> users[email].name],
                       session_token,
                       users, Put(sessions, session_token, email), activities)

\* A wrong logout: the cookie is cleared but the session stays in the store.
logout_keeps_session(session_token) ==
    Outcome(200, [message |-> "Logged out"], NoCookie,
            users, sessions, activities)

\* A wrong logout: every session is ended, not only the one presented.
logout_clears_all(session_token) ==
    Outcome(200, [message |-> "Logged out"], NoCookie,
            users,
            IF session_token \in DOMAIN sessions THEN <<>> ELSE sessions,
            activities)

\* POST /logout
logout(session_token) ==
    Outcome(200, [message |-> "Logged out"], NoCookie,
            users,
            IF session_token \in DOMAIN sessions
            THEN Del(sessions, session_token) ELSE sessions,
            activities)

\* GET /me
get_me(session_token) ==
    LET current == get_current_user(session_token)
    IN IF ~current.ok THEN current.error
       ELSE Outcome(200,
                    [email |-> current.user.email, role |-> current.user.role,
                     name |-> current.user.name],
                    NoCookie, users, sessions, activities)

\* A wrong signup: a full activity is refused.
signup_enforces_capacity(activity_name, email, session_token) ==
    LET current == get_current_user(session_token)
    IN IF ~current.ok THEN current.error
       ELSE IF activity_name \notin DOMAIN activities
       THEN HTTPException(404, "Activity not found")
       ELSE IF current.user.role = "student" /\ current.user.email # email
       THEN HTTPException(403, "Students can only sign up themselves")
       ELSE IF Contains(activities[activity_name].participants, email)
       THEN HTTPException(400, "Student is already signed up")
       ELSE IF Len(activities[activity_name].participants) >=
                   activities[activity_name].max_participants
       THEN HTTPException(400, "Activity is full")
       ELSE Outcome(200,
                    [message |-> <<"Signed up ", email, " for ", activity_name>>],
                    NoCookie, users, sessions,
                    [activities EXCEPT ![activity_name].participants =
                         Append(@, email)])

\* A wrong signup: the ownership check is missing.
signup_any_target(activity_name, email, session_token) ==
    LET current == get_current_user(session_token)
    IN IF ~current.ok THEN current.error
       ELSE IF activity_name \notin DOMAIN activities
       THEN HTTPException(404, "Activity not found")
       ELSE IF Contains(activities[activity_name].participants, email)
       THEN HTTPException(400, "Student is already signed up")
       ELSE Outcome(200,
                    [message |-> <<"Signed up ", email, " for ", activity_name>>],
                    NoCookie, users, sessions,
                    [activities EXCEPT ![activity_name].participants =
                         Append(@, email)])

\* A wrong signup: the email is put at the head of the roster.
signup_insert_front(activity_name, email, session_token) ==
    LET current == get_current_user(session_token)
    IN IF ~current.ok THEN current.error
       ELSE IF activity_name \notin DOMAIN activities
       THEN HTTPException(404, "Activity not found")
       ELSE IF current.user.role = "student" /\ current.user.email # email
       THEN HTTPException(403, "Students can only sign up themselves")
       ELSE IF Contains(activities[activity_name].participants, email)
       THEN HTTPException(400, "Student is already signed up")
       ELSE Outcome(200,
                    [message |-> <<"Signed up ", email, " for ", activity_name>>],
                    NoCookie, users, sessions,
                    [activities EXCEPT ![activity_name].participants =
                         <<email>> \o @])

\* A wrong signup: the already-enrolled check is missing.
signup_no_duplicate_check(activity_name, email, session_token) ==
    LET current == get_current_user(session_token)
    IN IF ~current.ok THEN current.error
       ELSE IF activity_name \notin DOMAIN activities
       THEN HTTPException(404, "Activity not found")
       ELSE IF current.user.role = "student" /\ current.user.email # email
       THEN HTTPException(403, "Students can only sign up themselves")
       ELSE Outcome(200,
                    [message |-> <<"Signed up ", email, " for ", activity_name>>],
                    NoCookie, users, sessions,
                    [activities EXCEPT ![activity_name].participants =
                         Append(@, email)])

\* POST /activities/{activity_name}/signup
signup_for_activity(activity_name, email, session_token) ==
    LET current == get_current_user(session_token)
    IN IF ~current.ok THEN current.error
       ELSE IF activity_name \notin DOMAIN activities
       THEN HTTPException(404, "Activity not found")
       ELSE IF current.user.role = "student" /\ current.user.email # email
       THEN HTTPException(403, "Students can only sign up themselves")
       ELSE IF Contains(activities[activity_name].participants, email)
       THEN HTTPException(400, "Student is already signed up")
       ELSE Outcome(200,
                    [message |-> <<"Signed up ", email, " for ", activity_name>>],
                    NoCookie, users, sessions,
                    [activities EXCEPT ![activity_name].participants =
                         Append(@, email)])

\* DELETE /activities/{activity_name}/unregister
unregister_from_activity(activity_name, email, session_token) ==
    LET current == get_current_user(session_token)
    IN IF ~current.ok THEN current.error
       ELSE IF activity_name \notin DOMAIN activities
       THEN HTTPException(404, "Activity not found")
       ELSE IF current.user.role = "student" /\ current.user.email # email
       THEN HTTPException(403, "Students can only unregister themselves")
       ELSE IF ~Contains(activities[activity_name].participants, email)
       THEN HTTPException(400, "Student is not signed up for this activity")
       ELSE Outcome(200,
                    [message |-> <<"Unregistered ", email, " from ", activity_name>>],
                    NoCookie, users, sessions,
                    [activities EXCEPT ![activity_name].participants =
                         remove(@, email)])

\* A wrong create_user: the role is not validated.
create_user_any_role(data, session_token) ==
    LET current == require_roles({"admin", "staff"}, session_token)
        email == data.email
        password == data.password
        role == data.role
        name == data.name
    IN IF ~current.ok THEN current.error
       ELSE IF email = Missing \/ password = Missing \/ role = Missing
               \/ name = Missing
       THEN HTTPException(400, "Missing user fields")
       ELSE IF email \in DOMAIN users
       THEN HTTPException(400, "User already exists")
       ELSE Outcome(200,
                    [message |-> <<"User ", email, " created with role ", role>>],
                    NoCookie,
                    Put(users, email, UserRecord(password, role, name)),
                    sessions, activities)

\* A wrong create_user: an existing record is overwritten.
create_user_overwrites(data, session_token) ==
    LET current == require_roles({"admin", "staff"}, session_token)
        email == data.email
        password == data.password
        role == data.role
        name == data.name
    IN IF ~current.ok THEN current.error
       ELSE IF email = Missing \/ password = Missing \/ role = Missing
               \/ name = Missing
       THEN HTTPException(400, "Missing user fields")
       ELSE IF role \notin {"admin", "staff", "student"}
       THEN HTTPException(400, "Invalid role")
       ELSE Outcome(200,
                    [message |-> <<"User ", email, " created with role ", role>>],
                    NoCookie,
                    Put(users, email, UserRecord(password, role, name)),
                    sessions, activities)

\* POST /users/create
create_user(data, session_token) ==
    LET current == require_roles({"admin", "staff"}, session_token)
        email == data.email
        password == data.password
        role == data.role
        name == data.name
    IN IF ~current.ok THEN current.error
       ELSE IF email = Missing \/ password = Missing \/ role = Missing
               \/ name = Missing
       THEN HTTPException(400, "Missing user fields")
       ELSE IF email \in DOMAIN users
       THEN HTTPException(400, "User already exists")
       ELSE IF role \notin {"admin", "staff", "student"}
       THEN HTTPException(400, "Invalid role")
       ELSE Outcome(200,
                    [message |-> <<"User ", email, " created with role ", role>>],
                    NoCookie,
                    Put(users, email, UserRecord(password, role, name)),
                    sessions, activities)

\* A wrong delete_user: only admins other than the caller are protected.
delete_user_other_admin_only(email, session_token) ==
    LET current == require_roles({"admin"}, session_token)
    IN IF ~current.ok THEN current.error
       ELSE IF email \notin DOMAIN users
       THEN HTTPException(404, "User not found")
       ELSE IF users[email].role = "admin" /\ email # current.user.email
       THEN HTTPException(403, "Cannot delete another admin")
       ELSE Outcome(200, [message |-> <<"User ", email, " deleted">>],
                    NoCookie, Del(users, email), sessions, activities)

\* A wrong delete_user: the deleted email is also taken off every roster.
delete_user_cascade(email, session_token) ==
    LET current == require_roles({"admin"}, session_token)
    IN IF ~current.ok THEN current.error
       ELSE IF email \notin DOMAIN users
       THEN HTTPException(404, "User not found")
       ELSE IF users[email].role = "admin"
       THEN HTTPException(403, "Cannot delete another admin")
       ELSE Outcome(200, [message |-> <<"User ", email, " deleted">>],
                    NoCookie, Del(users, email), sessions,
                    [a \in DOMAIN activities |->
                        [activities[a] EXCEPT !.participants =
                            SelectSeq(@, LAMBDA e : e # email)]])

\* A wrong delete_user: admin records are not protected.
delete_user_any_role(email, session_token) ==
    LET current == require_roles({"admin"}, session_token)
    IN IF ~current.ok THEN current.error
       ELSE IF email \notin DOMAIN users
       THEN HTTPException(404, "User not found")
       ELSE Outcome(200, [message |-> <<"User ", email, " deleted">>],
                    NoCookie, Del(users, email), sessions, activities)

\* DELETE /users/{email}
delete_user(email, session_token) ==
    LET current == require_roles({"admin"}, session_token)
    IN IF ~current.ok THEN current.error
       ELSE IF email \notin DOMAIN users
       THEN HTTPException(404, "User not found")
       ELSE IF users[email].role = "admin"
       THEN HTTPException(403, "Cannot delete another admin")
       ELSE Outcome(200, [message |-> <<"User ", email, " deleted">>],
                    NoCookie, Del(users, email), sessions, activities)

\* A wrong list_users: the records are returned as stored.
list_users_with_passwords(session_token) ==
    LET current == require_roles({"admin", "staff"}, session_token)
    IN IF ~current.ok THEN current.error
       ELSE Outcome(200, users, NoCookie, users, sessions, activities)

\* GET /users
list_users(session_token) ==
    LET current == require_roles({"admin", "staff"}, session_token)
    IN IF ~current.ok THEN current.error
       ELSE Outcome(200,
                    [email \in DOMAIN users |->
                         [k \in DOMAIN users[email] \ {"password"} |->
                              users[email][k]]],
                    NoCookie, users, sessions, activities)

-----------------------------------------------------------------------------
(* Requests the clients send. *)

\* Cookie values presented: none, or any token value (issued or not).
CookieInputs == 0..MaxTokens

ActivityInputs == {"Chess Club", "Knitting Circle"}

EmailInputs == {STUDENT, MICHAEL}

LoginInputs ==
    { [email |-> ADMIN, password |-> "adminpass"],
      [email |-> ADMIN, password |-> "wrongpass"],
      [email |-> TEACHER, password |-> "teachpass"],
      [email |-> STUDENT, password |-> "studpass"],
      [email |-> STUDENT, password |-> "newpass"],
      [email |-> NEWUSER, password |-> "newpass"],
      [email |-> GHOST, password |-> "adminpass"],
      [email |-> Missing, password |-> Missing] }

CreateInputs ==
    { [email |-> NEWUSER, password |-> "newpass", role |-> "student",
       name |-> "New User"],
      [email |-> NEWUSER, password |-> "newpass", role |-> "admin",
       name |-> "New User"],
      [email |-> NEWUSER, password |-> "newpass", role |-> "superuser",
       name |-> "New User"],
      [email |-> STUDENT, password |-> "newpass", role |-> "superuser",
       name |-> "Student S."],
      [email |-> STUDENT, password |-> "newpass", role |-> "staff",
       name |-> "Student S."],
      [email |-> NEWUSER, password |-> Missing, role |-> "student",
       name |-> "New User"],
      [email |-> STUDENT, password |-> Missing, role |-> "staff",
       name |-> "Student S."],
      [email |-> Missing, password |-> "newpass", role |-> "superuser",
       name |-> "New User"] }

DeleteInputs == {ADMIN, STUDENT, NEWUSER, GHOST}

-----------------------------------------------------------------------------
(* The state machine.  The server handles one request at a time.  `last'   *)
(* is the request just handled with its response (`after' names the       *)
(* request it followed back to back, if any), `pre' the stores as they     *)
(* were when it arrived; both are cleared when the client has collected    *)
(* the response.  `issued' counts the tokens generated, `loggedOut' holds  *)
(* the issued tokens that have been presented to logout.  `threads' are    *)
(* the signup requests in flight on pool threads, used only where the      *)
(* handlers are not taken to be atomic.                                    *)

NoArgs == [none |-> TRUE]

Idle == [op |-> "idle", after |-> "idle", cookie |-> NoCookie,
         args |-> NoArgs, status |-> 0, body |-> NoArgs,
         set_cookie |-> NoCookie]

Stores == [users |-> users, sessions |-> sessions, activities |-> activities]

\* A request arrives after the previous response was collected.
Ready == last.op = "idle"

\* A signup or unregister request may also arrive back to back with a signup
\* that just succeeded, for the same activity and email.
ReadyAfterSignup(activity_name, email) ==
    \/ Ready
    \/ /\ last.op = "signup"
       /\ last.status = 200
       /\ last.args = [activity_name |-> activity_name, email |-> email]

\* The pool threads that run signup requests side by side.
RaceThreads == {"t1", "t2"}

IdleThread == [pc |-> "idle", cookie |-> NoCookie, args |-> NoArgs,
               status |-> 0, body |-> NoArgs]

\* One handled request: the stores become the handler's, the response is kept.
Respond(op, cookie, args, outcome) ==
    \E out \in {outcome} :
        /\ users' = out.users
        /\ sessions' = out.sessions
        /\ activities' = out.activities
        /\ last' = [op |-> op, after |-> last.op, cookie |-> cookie,
                    args |-> args, status |-> out.status, body |-> out.body,
                    set_cookie |-> out.set_cookie]
        /\ pre' = Stores
        /\ UNCHANGED threads

Init ==
    /\ users = SeedUsers
    /\ sessions = <<>>
    /\ activities = SeedActivities
    /\ issued = 0
    /\ loggedOut = {}
    /\ last = Idle
    /\ pre = Stores
    /\ threads = [t \in RaceThreads |-> IdleThread]

Root ==
    /\ Ready
    /\ Respond("root", NoCookie, NoArgs, root)
    /\ UNCHANGED <<issued, loggedOut>>

GetActivities ==
    /\ Ready
    /\ Respond("get_activities", NoCookie, NoArgs, get_activities)
    /\ UNCHANGED <<issued, loggedOut>>

Login(data) ==
    /\ Ready
    /\ login(data).status = 200 => issued < MaxTokens
    /\ Respond("login", NoCookie, data, login(data))
    /\ issued' = IF login(data).status = 200 THEN issued + 1 ELSE issued
    /\ UNCHANGED loggedOut

Logout(session_token) ==
    /\ Ready
    /\ Respond("logout", session_token, NoArgs, logout(session_token))
    /\ loggedOut' = loggedOut \cup ({session_token} \cap (1..issued))
    /\ UNCHANGED issued

GetMe(session_token) ==
    /\ Ready
    /\ Respond("get_me", session_token, NoArgs, get_me(session_token))
    /\ UNCHANGED <<issued, loggedOut>>

Signup(session_token, activity_name, email) ==
    /\ ReadyAfterSignup(activity_name, email)
    /\ Respond("signup", session_token,
               [activity_name |-> activity_name, email |-> email],
               signup_for_activity(activity_name, email, session_token))
    /\ UNCHANGED <<issued, loggedOut>>

Unregister(session_token, activity_name, email) ==
    /\ ReadyAfterSignup(activity_name, email)
    /\ Respond("unregister", session_token,
               [activity_name |-> activity_name, email |-> email],
               unregister_from_activity(activity_name, email, session_token))
    /\ UNCHANGED <<issued, loggedOut>>

CreateUser(session_token, data) ==
    /\ Ready
    /\ Respond("create_user", session_token, data,
               create_user(data, session_token))
    /\ UNCHANGED <<issued, loggedOut>>

DeleteUser(session_token, email) ==
    /\ Ready
    /\ Respond("delete_user", session_token, [email |-> email],
               delete_user(email, session_token))
    /\ UNCHANGED <<issued, loggedOut>>

ListUsers(session_token) ==
    /\ Ready
    /\ Respond("list_users", session_token, NoArgs, list_users(session_token))
    /\ UNCHANGED <<issued, loggedOut>>

\* The client collects the response.
Deliver ==
    /\ ~Ready
    /\ last' = Idle
    /\ pre' = Stores
    /\ UNCHANGED <<users, sessions, activities, issued, loggedOut, threads>>

Next ==
    \/ Root
    \/ GetActivities
    \/ \E data \in LoginInputs : Login(data)
    \/ \E session_token \in CookieInputs : Logout(session_token)
    \/ \E session_token \in CookieInputs : GetMe(session_token)
    \/ \E session_token \in CookieInputs, activity_name \in ActivityInputs,
          email \in EmailInputs : Signup(session_token, activity_name, email)
    \/ \E session_token \in CookieInputs, activity_name \in ActivityInputs,
          email \in EmailInputs : Unregister(session_token, activity_name, email)
    \/ \E session_token \in CookieInputs, data \in CreateInputs :
          CreateUser(session_token, data)
    \/ \E session_token \in CookieInputs, email \in DeleteInputs :
          DeleteUser(session_token, email)
    \/ \E session_token \in CookieInputs : ListUsers(session_token)
    \/ Deliver

Spec == Init /\ [][Next]_vars

-----------------------------------------------------------------------------
(* Vocabulary of the properties: the last request as the client sent it,   *)
(* read against the stores as they were when it arrived.                   *)

ProtectedOps ==
    {"get_me", "signup", "unregister", "create_user", "delete_user",
     "list_users"}

\* The email the last request's cookie resolved to ("" if it resolved to none).
ActingEmail ==
    IF last.cookie \in DOMAIN pre.sessions
       /\ pre.sessions[last.cookie] \in DOMAIN pre.users
    THEN pre.sessions[last.cookie] ELSE ""

ActingRole == IF ActingEmail = "" THEN "" ELSE pre.users[ActingEmail].role

Occurrences(list, x) == Cardinality({i \in DOMAIN list : list[i] = x})

Members(list) == {list[i] : i \in DOMAIN list}

Roster(a) == activities[a].participants

PreRoster(a) == pre.activities[a].participants

-----------------------------------------------------------------------------
\* C1: once logout has been called with a token that login issued, every
\* later request that presents that token to a session-protected handler
\* (me, signup, unregister, create_user, delete_user, list_users) is
\* answered 401, whatever was handled in between.
C1_LoggedOutTokenRejected ==
    (last.op \in ProtectedOps /\ last.cookie \in loggedOut)
        => last.status = 401

\* A logged-out token is presented while a token issued later is still live.
C1_Witness ==
    /\ last.op \in ProtectedOps
    /\ last.cookie \in loggedOut
    /\ last.status = 401
    /\ \E t \in DOMAIN sessions : t > last.cookie

\* C2: a signup or unregister by a student-role acting user for an email
\* other than their own, on an existing activity, is answered 403 and leaves
\* the roster unchanged; and no request by a student-role acting user adds
\* or removes any email other than the acting user's own on any roster.
C2_StudentOwnership ==
    (last.op \in {"signup", "unregister"} /\ ActingRole = "student") =>
        /\ (/\ last.args.activity_name \in DOMAIN pre.activities
            /\ last.args.email # ActingEmail)
               => /\ last.status = 403
                  /\ activities = pre.activities
        /\ DOMAIN activities = DOMAIN pre.activities
        /\ \A a \in DOMAIN activities :
               \A e \in (Members(Roster(a)) \cup Members(PreRoster(a)))
                            \ {ActingEmail} :
                   Occurrences(Roster(a), e) = Occurrences(PreRoster(a), e)

\* A student asks to sign up somebody else who is not enrolled.
C2_Witness ==
    /\ last.op = "signup"
    /\ ActingRole = "student"
    /\ last.args.activity_name \in DOMAIN pre.activities
    /\ last.args.email # ActingEmail
    /\ ~Contains(PreRoster(last.args.activity_name), last.args.email)
    /\ last.status = 403

\* C3: a user record is added only by a create_user request whose acting
\* user has role admin or staff, and removed only by a delete_user request
\* whose acting user has role admin; create_user by a student, and
\* delete_user by a staff or student user, are answered 403 and leave the
\* users mapping unchanged.
C3_RoleGate ==
    /\ (DOMAIN users \ DOMAIN pre.users # {})
           => (last.op = "create_user" /\ ActingRole \in {"admin", "staff"})
    /\ (DOMAIN pre.users \ DOMAIN users # {})
           => (last.op = "delete_user" /\ ActingRole = "admin")
    /\ (last.op = "create_user" /\ ActingRole = "student")
           => (last.status = 403 /\ users = pre.users)
    /\ (last.op = "delete_user" /\ ActingRole \in {"staff", "student"})
           => (last.status = 403 /\ users = pre.users)

\* A staff user asks to delete an existing non-admin user.
C3_Witness ==
    /\ last.op = "delete_user"
    /\ ActingRole = "staff"
    /\ last.args.email \in DOMAIN pre.users
    /\ pre.users[last.args.email].role # "admin"
    /\ last.status = 403

\* C4: delete_user by an acting admin on an existing email whose record has
\* role admin is answered 403, also when the admin targets their own email,
\* and the targeted record stays in the store unchanged.
C4_AdminNotDeletable ==
    (/\ last.op = "delete_user"
     /\ ActingRole = "admin"
     /\ last.args.email \in DOMAIN pre.users
     /\ pre.users[last.args.email].role = "admin")
        => /\ last.status = 403
           /\ last.args.email \in DOMAIN users
           /\ users[last.args.email] = pre.users[last.args.email]

\* An admin asks to delete their own record.
C4_Witness ==
    /\ last.op = "delete_user"
    /\ ActingRole = "admin"
    /\ last.args.email = ActingEmail
    /\ last.status = 403

\* C5: signup by a staff or admin acting user of an email that is not on the
\* roster of an existing activity succeeds, and afterwards the roster is the
\* previous roster with the email appended (so the email is on it exactly
\* once and the earlier emails keep their order), whether or not a user
\* record exists for the email.
C5_StaffSignupAppends ==
    (/\ last.op = "signup"
     /\ ActingRole \in {"staff", "admin"}
     /\ last.args.activity_name \in DOMAIN pre.activities
     /\ ~Contains(PreRoster(last.args.activity_name), last.args.email))
        => /\ last.status = 200
           /\ Roster(last.args.activity_name) =
                  Append(PreRoster(last.args.activity_name), last.args.email)
           /\ Occurrences(Roster(last.args.activity_name), last.args.email) = 1

\* A staff user signs up an email that has no user record.
C5_Witness ==
    /\ last.op = "signup"
    /\ ActingRole = "staff"
    /\ last.status = 200
    /\ last.args.email \notin DOMAIN users
    /\ Len(PreRoster(last.args.activity_name)) > 0

\* The acting user of a request with this cookie, arriving now, passes the
\* ownership rule for this email.
AuthorizedNow(cookie, email) ==
    /\ cookie \in DOMAIN sessions
    /\ sessions[cookie] \in DOMAIN users
    /\ (users[sessions[cookie]].role # "student" \/ sessions[cookie] = email)

\* C6: when a signup(A, S) has succeeded and the next request is a signup
\* of the same A and S by an authorized acting user, that second request is
\* answered 400 "already signed up" and the catalog, A's roster included,
\* stays exactly as the first signup left it.
C6_SecondSignupRejected ==
    [][(/\ last.op = "signup"
        /\ last.status = 200
        /\ last'.op = "signup"
        /\ last'.args = last.args
        /\ AuthorizedNow(last'.cookie, last.args.email))
           => /\ last'.status = 400
              /\ last'.body = [detail |-> "Student is already signed up"]
              /\ activities' = activities]_vars

\* A repeated signup, back to back with the one that enrolled the email.
C6_Witness ==
    /\ last.op = "signup"
    /\ last.after = "signup"
    /\ ActingEmail # ""
    /\ (ActingRole # "student" \/ ActingEmail = last.args.email)
    /\ last.status = 400

\* C7: when a signup(A, S) has succeeded and the next request is an
\* unregister of the same A and S by an authorized acting user, the
\* unregister succeeds and the whole catalog is again as it was before the
\* signup: A's roster holds the same emails in the same order and no other
\* activity has changed.
C7_SignupUnregisterRoundTrip ==
    [][(/\ last.op = "signup"
        /\ last.status = 200
        /\ last'.op = "unregister"
        /\ last'.args = last.args
        /\ AuthorizedNow(last'.cookie, last.args.email))
           => /\ last'.status = 200
              /\ activities' = pre.activities]_vars

\* An unregister back to back with the signup, on a roster that held others.
C7_Witness ==
    /\ last.op = "unregister"
    /\ last.after = "signup"
    /\ last.status = 200
    /\ Len(Roster(last.args.activity_name)) >= 2

\* C8: login succeeds exactly when the email has a record and the password
\* equals the stored one; it then returns that record's role and name (role
\* admin for admin@mergington.edu with adminpass); otherwise it is answered
\* 401 "Invalid credentials" and the session store gains no entry.
C8_LoginIffCredentialsMatch ==
    last.op = "login" =>
        /\ IF /\ last.args.email \in DOMAIN pre.users
              /\ pre.users[last.args.email].password = last.args.password
           THEN /\ last.status = 200
                /\ last.body.role = pre.users[last.args.email].role
                /\ last.body.name = pre.users[last.args.email].name
           ELSE /\ last.status = 401
                /\ last.body = [detail |-> "Invalid credentials"]
                /\ sessions = pre.sessions
        /\ (last.args = [email |-> ADMIN, password |-> "adminpass"])
               => (last.status = 200 /\ last.body.role = "admin")

\* A login with the password and role of a record created after a deletion.
C8_Witness ==
    /\ last.op = "login"
    /\ last.status = 200
    /\ last.args.email = STUDENT
    /\ last.args.password = "newpass"
    /\ last.body.role = "staff"

\* C9: a successful login adds exactly one token to the session store, one
\* that was not in it, mapped to the email that logged in, and the sessions
\* that were there stay as they were; a logout takes away no session but
\* the one of the token presented.
C9_LoginAddsOneFreshSession ==
    /\ (last.op = "login" /\ last.status = 200) =>
           /\ last.set_cookie \notin DOMAIN pre.sessions
           /\ DOMAIN sessions = DOMAIN pre.sessions \cup {last.set_cookie}
           /\ sessions[last.set_cookie] = last.args.email
           /\ \A t \in DOMAIN pre.sessions : sessions[t] = pre.sessions[t]
    /\ last.op = "logout" =>
           \A t \in DOMAIN pre.sessions \ {last.cookie} :
               t \in DOMAIN sessions /\ sessions[t] = pre.sessions[t]

\* A user who already holds a session logs in again and holds both.
C9_Witness ==
    /\ last.op = "login"
    /\ last.status = 200
    /\ \E t \in DOMAIN pre.sessions :
           /\ pre.sessions[t] = last.args.email
           /\ t \in DOMAIN sessions
           /\ t # last.set_cookie

\* The last request is a create_user by an admin or staff acting user with
\* every field filled in and a role that is none of admin, staff, student.
BadRoleRequest ==
    /\ last.op = "create_user"
    /\ ActingRole \in {"admin", "staff"}
    /\ last.args.email # Missing
    /\ last.args.password # Missing
    /\ last.args.role # Missing
    /\ last.args.name # Missing
    /\ last.args.role \notin Roles

\* C10 as stated: create_user by an admin or staff acting user, all fields
\* non-empty, role outside {admin, staff, student}, is answered 400
\* "Invalid role" and inserts no record.
C10_BadRoleAlwaysInvalidRole ==
    BadRoleRequest
        => /\ last.status = 400
           /\ last.body = [detail |-> "Invalid role"]
           /\ users = pre.users

\* C10 as amended: such a request is answered 400 "Invalid role" when the
\* email has no record yet, and 400 "User already exists" when it has one;
\* either way no record is inserted or changed.
C10_BadRoleUnlessDuplicate ==
    BadRoleRequest
        => /\ last.status = 400
           /\ last.body = [detail |-> IF last.args.email \in DOMAIN pre.users
                                      THEN "User already exists"
                                      ELSE "Invalid role"]
           /\ users = pre.users

\* A bad role for an email that has no record.
C10_Witness ==
    /\ BadRoleRequest
    /\ last.args.email \notin DOMAIN pre.users
    /\ last.body = [detail |-> "Invalid role"]

\* The last request is a create_user by an admin or staff acting user for
\* an email that has a record.
DuplicateRequest ==
    /\ last.op = "create_user"
    /\ ActingRole \in {"admin", "staff"}
    /\ last.args.email \in DOMAIN pre.users

\* No record that exists before and after the last request has changed.
RecordsKept ==
    \A e \in DOMAIN pre.users \cap DOMAIN users : users[e] = pre.users[e]

\* C11 as stated: create_user by an authorized acting user for an email that
\* has a record is answered 400 "User already exists" and the record keeps
\* its password, role and name; no request changes a record that exists.
C11_DuplicateAlwaysUserExists ==
    /\ DuplicateRequest
           => /\ last.status = 400
              /\ last.body = [detail |-> "User already exists"]
              /\ users = pre.users
    /\ RecordsKept

\* C11 as amended: such a request is answered 400 "User already exists"
\* when password, role and name are all non-empty, and 400 "Missing user
\* fields" when one of them is empty; either way the record keeps its
\* password, role and name, and no request changes a record that exists.
C11_DuplicateNeverOverwrites ==
    /\ DuplicateRequest
           => /\ last.status = 400
              /\ last.body =
                     [detail |-> IF \/ last.args.password = Missing
                                    \/ last.args.role = Missing
                                    \/ last.args.name = Missing
                                 THEN "Missing user fields"
                                 ELSE "User already exists"]
              /\ users = pre.users
    /\ RecordsKept

\* A well-formed record is sent for an existing email with other contents.
C11_Witness ==
    /\ DuplicateRequest
    /\ last.args.role \in Roles
    /\ last.args.password # Missing
    /\ last.args.password # pre.users[last.args.email].password
    /\ last.body = [detail |-> "User already exists"]

\* C12: list_users for an admin or staff acting user returns one entry per
\* email in the users mapping, each holding exactly that record's role and
\* name and no password, and leaves the users mapping as it was.
C12_ListUsersStripsPasswords ==
    (last.op = "list_users" /\ ActingRole \in {"admin", "staff"})
        => /\ last.status = 200
           /\ DOMAIN last.body = DOMAIN pre.users
           /\ \A e \in DOMAIN pre.users :
                  /\ DOMAIN last.body[e] = {"role", "name"}
                  /\ last.body[e].role = pre.users[e].role
                  /\ last.body[e].name = pre.users[e].name
           /\ users = pre.users

\* A staff user lists the users after one was created.
C12_Witness ==
    /\ last.op = "list_users"
    /\ ActingRole = "staff"
    /\ last.status = 200
    /\ NEWUSER \in DOMAIN last.body

\* The token is in the session store and its email has no user record.
Stale(t) == t \in DOMAIN sessions /\ sessions[t] \notin DOMAIN users

\* C13: delete_user leaves the deleted user's tokens in the session store,
\* and a token whose user has been deleted is answered 401 from then on,
\* whatever is handled next, the creation of a user with the same email
\* included: a token that resolves to no user resolves to none after the
\* next request either.
C13_DeletedUsersTokenStaysInvalid ==
    [][/\ (last'.op = "delete_user" /\ last'.status = 200)
              => sessions' = sessions
       /\ \A t \in DOMAIN sessions :
              Stale(t) => ~(get_current_user(t).ok)']_vars

\* C14: logout is always answered 200; with an absent or unknown token it
\* leaves the session store as it was, with a known token it removes that
\* token and no other; a second logout with the same token changes nothing
\* more; users and activities are never modified.
C14_LogoutIdempotent ==
    last.op = "logout" =>
        /\ last.status = 200
        /\ (last.cookie \notin DOMAIN pre.sessions) => sessions = pre.sessions
        /\ DOMAIN sessions = DOMAIN pre.sessions \ {last.cookie}
        /\ \A t \in DOMAIN sessions : sessions[t] = pre.sessions[t]
        /\ users = pre.users
        /\ activities = pre.activities
        /\ logout(last.cookie).status = 200
        /\ logout(last.cookie).sessions = sessions
        /\ logout(last.cookie).users = users
        /\ logout(last.cookie).activities = activities

\* A known token is logged out while another session is open.
C14_Witness ==
    /\ last.op = "logout"
    /\ last.cookie \in DOMAIN pre.sessions
    /\ last.cookie \notin DOMAIN sessions
    /\ DOMAIN sessions # {}

\* C15: the catalog always holds the seeded activity names, each with its
\* seeded description, schedule and max_participants; signup and unregister
\* change nothing but the roster of the activity named; login, logout,
\* create_user, delete_user and list_users change no activity (the email of
\* a deleted user stays on the rosters it was on).
C15_CatalogFixed ==
    /\ DOMAIN activities = DOMAIN SeedActivities
    /\ \A a \in DOMAIN activities :
           /\ DOMAIN activities[a] = DOMAIN SeedActivities[a]
           /\ activities[a].description = SeedActivities[a].description
           /\ activities[a].schedule = SeedActivities[a].schedule
           /\ activities[a].max_participants =
                  SeedActivities[a].max_participants
    /\ last.op \in {"signup", "unregister"} =>
           \A a \in DOMAIN activities \ {last.args.activity_name} :
               activities[a] = pre.activities[a]
    /\ last.op \in {"login", "logout", "create_user", "delete_user",
                    "list_users"} => activities = pre.activities

\* A user whose email is on a roster is deleted.
C15_Witness ==
    /\ last.op = "delete_user"
    /\ last.status = 200
    /\ \E a \in DOMAIN activities : Contains(Roster(a), last.args.email)

\* C16: with the handlers run one at a time, no email is on any activity's
\* roster more than once.
C16_RostersDuplicateFree ==
    \A a \in DOMAIN activities :
        \A e \in Members(Roster(a)) : Occurrences(Roster(a), e) = 1

\* A seeded email was unregistered and signed up again behind a newer one,
\* and a further signup of it has just been refused.
C16_Witness ==
    /\ last.op = "signup"
    /\ last.status = 400
    /\ last.args = [activity_name |-> "Chess Club", email |-> MICHAEL]
    /\ Roster("Chess Club") =
           <<"daniel@mergington.edu", STUDENT, MICHAEL>>

\* The operations of the stores, and how many of the three stores the last
\* request changed.
StoreOps ==
    {"login", "logout", "get_me", "signup", "unregister", "create_user",
     "delete_user", "list_users", "get_activities"}

StoresChanged ==
    Cardinality({s \in {"users", "sessions", "activities"} : Stores[s] # pre[s]})

\* C19 as stated: an operation answered with an error leaves users, sessions
\* and activities as they were, and a successful operation changes exactly
\* one store.
C19_SuccessChangesExactlyOneStore ==
    last.op \in StoreOps \ {"get_activities"} =>
        /\ last.status >= 400 => Stores = pre
        /\ last.status = 200 => StoresChanged = 1

\* C19 as amended: an operation answered with an error leaves the three
\* stores as they were; a successful login adds one session, a successful
\* logout removes at most one session, a successful signup adds one roster
\* entry, a successful unregister removes one, a successful create_user adds
\* one user and a successful delete_user removes one, each changing that
\* store alone; a successful me, list_users or get_activities changes
\* nothing.
C19_ErrorsChangeNothing ==
    last.op \in StoreOps =>
        /\ last.status \in {200, 400, 401, 403, 404}
        /\ last.status >= 400 => Stores = pre
        /\ last.status = 200 =>
               /\ StoresChanged <= 1
               /\ last.op = "login" =>
                      /\ Cardinality(DOMAIN sessions) =
                             Cardinality(DOMAIN pre.sessions) + 1
                      /\ StoresChanged = 1
               /\ last.op = "logout" =>
                      /\ Cardinality(DOMAIN sessions) \in
                             {Cardinality(DOMAIN pre.sessions),
                              Cardinality(DOMAIN pre.sessions) - 1}
                      /\ users = pre.users /\ activities = pre.activities
               /\ last.op = "signup" =>
                      /\ Len(Roster(last.args.activity_name)) =
                             Len(PreRoster(last.args.activity_name)) + 1
                      /\ StoresChanged = 1
               /\ last.op = "unregister" =>
                      /\ Len(Roster(last.args.activity_name)) =
                             Len(PreRoster(last.args.activity_name)) - 1
                      /\ StoresChanged = 1
               /\ last.op = "create_user" =>
                      /\ Cardinality(DOMAIN users) =
                             Cardinality(DOMAIN pre.users) + 1
                      /\ StoresChanged = 1
               /\ last.op = "delete_user" =>
                      /\ Cardinality(DOMAIN users) =
                             Cardinality(DOMAIN pre.users) - 1
                      /\ StoresChanged = 1
               /\ last.op \in {"get_me", "list_users", "get_activities"} =>
                      StoresChanged = 0

\* A user who is on a roster and holds a session is deleted: one store changes.
C19_Witness ==
    /\ last.op = "delete_user"
    /\ last.status = 200
    /\ \E a \in DOMAIN activities : Contains(Roster(a), last.args.email)
    /\ \E t \in DOMAIN sessions : sessions[t] = last.args.email
    /\ StoresChanged = 1

\* C20: an email that has a record with role admin keeps a record with role
\* admin and the same password through every request; admin@mergington.edu
\* always has its seeded admin record and a login with adminpass succeeds
\* in every state; so the set of admin emails never shrinks.
C20_AdminsPermanent ==
    /\ \A e \in DOMAIN pre.users :
           pre.users[e].role = "admin" =>
               /\ e \in DOMAIN users
               /\ users[e].role = "admin"
               /\ users[e].password = pre.users[e].password
    /\ ADMIN \in DOMAIN users
    /\ users[ADMIN].role = "admin"
    /\ users[ADMIN].password = "adminpass"
    /\ login([email |-> ADMIN, password |-> "adminpass"]).status = 200

\* A staff user creates a user with role admin: the set of admins grows.
C20_Witness ==
    /\ last.op = "create_user"
    /\ ActingRole = "staff"
    /\ last.status = 200
    /\ last.args.role = "admin"
    /\ last.args.email \notin DOMAIN pre.users
    /\ users[last.args.email].role = "admin"

-----------------------------------------------------------------------------
(* Signup requests on pool threads.  The handlers are plain `def'          *)
(* functions, which the framework runs on worker threads, so two signup    *)
(* requests can be inside signup_for_activity together.  A request first   *)
(* resolves its user and runs the handler's tests up to the membership     *)
(* test, and appends in a later step.                                      *)

RaceLoginInputs ==
    { [email |-> TEACHER, password |-> "teachpass"],
      [email |-> STUDENT, password |-> "studpass"] }

\* A wrong append: the roster is looked at again before the email is added.
signup_append_if_absent(activity_name, email) ==
    IF Contains(activities[activity_name].participants, email)
    THEN activities
    ELSE [activities EXCEPT ![activity_name].participants = Append(@, email)]

\* activity["participants"].append(email)
signup_append(activity_name, email) ==
    [activities EXCEPT ![activity_name].participants = Append(@, email)]

\* The request runs up to and including `if email in activity["participants"]'.
SignupCheck(t, session_token, activity_name, email) ==
    /\ threads[t].pc = "idle"
    /\ \E out \in {signup_for_activity(activity_name, email, session_token)} :
           threads' = [threads EXCEPT ![t] =
               [pc |-> IF out.status = 200 THEN "append" ELSE "done",
                cookie |-> session_token,
                args |-> [activity_name |-> activity_name, email |-> email],
                status |-> IF out.status = 200 THEN 0 ELSE out.status,
                body |-> IF out.status = 200 THEN NoArgs ELSE out.body]]
    /\ UNCHANGED <<users, sessions, activities, issued, loggedOut, last, pre>>

\* The request appends the email and returns its message.
SignupAppend(t) ==
    /\ threads[t].pc = "append"
    /\ activities' =
           signup_append(threads[t].args.activity_name, threads[t].args.email)
    /\ threads' = [threads EXCEPT ![t].pc = "done", ![t].status = 200,
                       ![t].body =
                           [message |-> <<"Signed up ", threads[t].args.email,
                                          " for ",
                                          threads[t].args.activity_name>>]]
    /\ UNCHANGED <<users, sessions, issued, loggedOut, last, pre>>

\* The response is sent and the thread goes back to the pool.
SignupReturn(t) ==
    /\ threads[t].pc = "done"
    /\ threads' = [threads EXCEPT ![t] = IdleThread]
    /\ UNCHANGED <<users, sessions, activities, issued, loggedOut, last, pre>>

NextRace ==
    \/ \E data \in RaceLoginInputs : Login(data)
    \/ Deliver
    \/ \E t \in RaceThreads, session_token \in CookieInputs,
          activity_name \in ActivityInputs, email \in EmailInputs :
          SignupCheck(t, session_token, activity_name, email)
    \/ \E t \in RaceThreads : SignupAppend(t)
    \/ \E t \in RaceThreads : SignupReturn(t)

SpecRace == Init /\ [][NextRace]_vars

\* Two requests that have both been answered 200 for the same signup.
BothSucceeded(t1, t2) ==
    /\ t1 # t2
    /\ threads[t1].pc = "done" /\ threads[t1].status = 200
    /\ threads[t2].pc = "done" /\ threads[t2].status = 200
    /\ threads[t1].args = threads[t2].args

\* C17: when two signup requests for the same activity and the same email
\* have both passed the membership test before either appended, the email
\* is not on the roster yet, both go on to succeed, and once both have
\* been answered 200 the email is on the roster twice.
C17_InterleavedSignupsDuplicate ==
    \A t1, t2 \in RaceThreads :
        /\ (/\ t1 # t2
            /\ threads[t1].pc = "append"
            /\ threads[t2].pc = "append"
            /\ threads[t1].args = threads[t2].args)
               => ~Contains(Roster(threads[t1].args.activity_name),
                            threads[t1].args.email)
        /\ BothSucceeded(t1, t2)
               => Occurrences(Roster(threads[t1].args.activity_name),
                              threads[t1].args.email) = 2

\* Both requests were answered 200 and the email is on the roster twice.
C17_Witness ==
    /\ BothSucceeded("t1", "t2")
    /\ Occurrences(Roster(threads["t1"].args.activity_name),
                   threads["t1"].args.email) = 2

-----------------------------------------------------------------------------
(* Filling an activity.  Math Club has the smallest max_participants; a    *)
(* staff user signs up the applicants of a list, in the order of the list. *)

CapacityActivity == "Math Club"

Applicants ==
    <<"ann@mergington.edu", "bob@mergington.edu", "cat@mergington.edu",
      "dan@mergington.edu", "eve@mergington.edu", "fay@mergington.edu",
      "gus@mergington.edu", "hal@mergington.edu", "ivy@mergington.edu">>

\* The applicants already signed up, and the one whose turn it is.
ApplicantInputs ==
    LET enrolled == {i \in DOMAIN Applicants :
                        Contains(Roster(CapacityActivity), Applicants[i])}
    IN {Applicants[i] : i \in {j \in DOMAIN Applicants :
                                  \A k \in 1..(j - 1) : k \in enrolled}}

NextCapacity ==
    \/ \E data \in RaceLoginInputs : Login(data)
    \/ Deliver
    \/ \E session_token \in CookieInputs, email \in ApplicantInputs :
          Signup(session_token, CapacityActivity, email)

SpecCapacity == Init /\ [][NextCapacity]_vars

\* C18: a signup of an email that is not on the roster, by an acting user
\* the ownership rule admits, succeeds and appends the email whatever the
\* size of the roster, also when the roster already holds max_participants
\* emails or more.
C18_SignupIgnoresCapacity ==
    (/\ last.op = "signup"
     /\ ActingEmail # ""
     /\ (ActingRole # "student" \/ ActingEmail = last.args.email)
     /\ last.args.activity_name \in DOMAIN pre.activities
     /\ ~Contains(PreRoster(last.args.activity_name), last.args.email))
        => /\ last.status = 200
           /\ Len(Roster(last.args.activity_name)) =
                  Len(PreRoster(last.args.activity_name)) + 1
           /\ Contains(Roster(last.args.activity_name), last.args.email)

\* A signup succeeded on a roster that was full: it is now over the limit.
C18_Witness ==
    /\ last.op = "signup"
    /\ last.status = 200
    /\ Len(PreRoster(last.args.activity_name)) >=
           pre.activities[last.args.activity_name].max_participants
    /\ Len(Roster(last.args.activity_name)) >
           activities[last.args.activity_name].max_participants

=============================================================================
